---- MODULE Spec2Model ----
(***************************************************************************)
(* A model of the numpad interpreter (brightp-py/numpad):                  *)
(*   - numpadrun.load_program, the module resolver that discovers the      *)
(*     units named in the first line of each unit and concatenates the     *)
(*     bodies into one program text;                                       *)
(*   - numpad.Scope / NullScope / FuncExpression / Statement*, the scope   *)
(*     chain, function invocation and the Set / SetIndex statements.       *)
(***************************************************************************)
EXTENDS Integers, Sequences, FiniteSets, TLC

VARIABLES
    disk,        \* the source units on disk: name -> [at, imports]
    pc,          \* position of load_program: setup, start, loop, done, error, crash
    err,         \* the NumpadError raised by load_program, "none" if none
    files,       \* load_program: files (discovered unit names)
    texts,       \* load_program: texts (cached text of each discovered unit)
    i,           \* load_program: i (0-based processing index)
    d_i,         \* load_program: d_i of the last loop iteration
    final_text,  \* load_program: final_text, as the sequence of unit bodies
    stack,       \* the chain of Scope objects, root (NullScope) first; each with
                 \* its _variables, its _parent (a position of the chain, 0
                 \* for none) and the slot the pending call's result goes to
    heap,        \* the list objects, addressed by reference
    status,      \* "idle" before the run, "run" while the program runs, else the
                 \* exception that ended it
    steps,       \* number of statements run so far
    fpc,         \* position of the divide of two ints: idle, loop, done, error
    fargs,       \* the operands <<x, y>> of the divide
    dec,         \* _float_to_list: dec, kept exactly as sgn * (m + r / d)
    power,       \* _float_to_list: power
    fret,        \* the value the divide returns
    ctl,         \* the blocks being run in the top scope, innermost last: the
                 \* StatementBlock.run, StatementIf.run, StatementWhile.run frames
    param,       \* run: the integers of param, in order
    result,      \* run: the value returned, Unbound before the return
    ended        \* the While statement that ended last: how often its
                 \* condition was evaluated and its body run

lvars == <<disk, pc, err, files, texts, i, d_i, final_text>>

ivars == <<stack, heap, status, steps>>

fvars == <<fpc, fargs, dec, power, fret>>

cvars == <<ctl, ended>>

rvars == <<param, result>>

vars == <<disk, pc, err, files, texts, i, d_i, final_text, stack, heap, status, steps,
          fpc, fargs, dec, power, fret, ctl, ended, param, result>>

\* what the steps of load_program, of the interpreter and of the divide leave alone
notLoad == <<ivars, fvars, cvars, rvars>>
notRun == <<lvars, fvars, cvars, rvars>>
notFloat == <<lvars, ivars, cvars, rvars>>
notBlock == <<lvars, fvars, rvars>>
notStmt == <<lvars, fvars, cvars>>

----------------------------------------------------------------------------
(* Bounds *)

\* longest first line (number of imported names) of a unit
MaxHeader == 3
\* number of import entries over all units on disk
MaxEdges == 5
\* the resolver's files list is followed up to this length
MaxFiles == 7

\* number of statements (and returns) one run of a program is followed for
MaxSteps == 5
\* nesting of scopes: the root scope and MaxDepth - 1 active invocations
MaxDepth == 3
\* lists are followed up to this length
MaxLen == 3
\* number of statements of a program on index paths
MaxIndexSteps == 4
\* number of statements of a program run from run
MaxRunSteps == 3
\* number of statements of a program on operators
MaxOperSteps == 3
\* largest dividend (in magnitude) given to the divide
MaxDividend == 10
\* the scaling loop is followed while the scaled quotient stays below this
MaxMantissa == 999999999

\* unit names; Entry is the file_path given to load_program
Names == {"E", "D", "C", "B"}
Entry == "E"

----------------------------------------------------------------------------
(* Generic sequence helpers, with Python's list semantics *)

Range(s) == {s[k] : k \in DOMAIN s}

Min(a, b) == IF a < b THEN a ELSE b
Max(a, b) == IF a > b THEN a ELSE b

\* s[:n] for any integer n (a negative n counts from the end)
PyPrefix(s, n) ==
    IF n >= 0 THEN SubSeq(s, 1, Min(n, Len(s)))
    ELSE SubSeq(s, 1, Max(Len(s) + n, 0))

\* the 1-based position of Python's s[n]; 0 when s[n] raises IndexError
PyPos(s, n) ==
    IF n >= 0 THEN (IF n < Len(s) THEN n + 1 ELSE 0)
    ELSE (IF Len(s) + n >= 0 THEN Len(s) + n + 1 ELSE 0)

\* s.index(x) as a 1-based position (x is known to occur)
IndexOf(s, x) == CHOOSE k \in DOMAIN s : s[k] = x /\ \A m \in 1..(k-1) : s[m] # x

\* del s[k] (k a 1-based position)
DelAt(s, k) == SubSeq(s, 1, k - 1) \o SubSeq(s, k + 1, Len(s))

----------------------------------------------------------------------------
(* The units on disk and their dependency graph *)

NoText == [loaded |-> FALSE, imports |-> <<>>, body |-> "", src |-> 0]

\* the files import_npd tries for a unit, in the order it tries them:
\* 1 "{file_path}.npd", 2 "{file_path}.txt", 3 "lib/{file_name}.npd",
\* 4 "lib/{file_name}.txt"
Candidates == 1..4

\* the first candidate among those at, 0 when there is none
FirstOf(at) == IF at = {} THEN 0 ELSE CHOOSE c \in at : \A e \in at : c <= e

\* the last candidate among those at, 0 when there is none
LastOf(at) == IF at = {} THEN 0 ELSE CHOOSE c \in at : \A e \in at : c >= e

\* import_npd with the candidates tried from the last to the first
import_npdLast(u) ==
    IF disk[u].at # {}
    THEN [loaded |-> TRUE, imports |-> disk[u].imports, body |-> u,
          src |-> LastOf(disk[u].at)]
    ELSE NoText

\* import_npd: the raw text of unit u, as its first line (the imported names),
\* its body (named after the unit) and the candidate it was read from; not
\* loaded when no candidate exists (NumpadError)
import_npd(u) ==
    IF disk[u].at # {}
    THEN [loaded |-> TRUE, imports |-> disk[u].imports, body |-> u,
          src |-> FirstOf(disk[u].at)]
    ELSE NoText

Imports(u) == Range(disk[u].imports)

RECURSIVE ReachFrom(_)
ReachFrom(S) ==
    LET N == S \cup UNION {Imports(u) : u \in S}
    IN IF N = S THEN S ELSE ReachFrom(N)

\* the units the entry unit depends on, itself included
Reachable == ReachFrom({Entry})

\* a unit reachable from the entry that (transitively) imports itself
HasCycle == \E u \in Reachable : u \in ReachFrom(Imports(u))

Acyclic == ~HasCycle

AllLoadable == \A u \in Reachable : disk[u].at # {}

NumEdges == Len(disk["E"].imports) + Len(disk["D"].imports)
            + Len(disk["C"].imports) + Len(disk["B"].imports)

----------------------------------------------------------------------------
(* load_program *)

\* ImportOne with the membership test on the whole list instead of files[:i]
ImportOneAnywhere(st, im, idx) ==
    IF im \in Range(st.files)
    THEN LET j == IndexOf(st.files, im)
         IN [files |-> DelAt(Append(st.files, im), j),
             texts |-> DelAt(Append(st.texts, st.texts[j]), j),
             d_i   |-> st.d_i - 1]
    ELSE [files |-> Append(st.files, im),
          texts |-> Append(st.texts, NoText),
          d_i   |-> st.d_i]

\* ImportOne with a new name put at the front of the lists instead of the end
ImportOneFront(st, im, idx) ==
    IF im \in Range(PyPrefix(st.files, idx))
    THEN LET j == IndexOf(st.files, im)
         IN [files |-> DelAt(Append(st.files, im), j),
             texts |-> DelAt(Append(st.texts, st.texts[j]), j),
             d_i   |-> st.d_i - 1]
    ELSE [files |-> <<im>> \o st.files,
          texts |-> <<NoText>> \o st.texts,
          d_i   |-> st.d_i]

\* one pass of the body of "for im_file in imports.split('.')"
ImportOne(st, im, idx) ==
    IF im \in Range(PyPrefix(st.files, idx))
    THEN LET j == IndexOf(st.files, im)
         IN [files |-> DelAt(Append(st.files, im), j),
             texts |-> DelAt(Append(st.texts, st.texts[j]), j),
             d_i   |-> st.d_i - 1]
    ELSE [files |-> Append(st.files, im),
          texts |-> Append(st.texts, NoText),
          d_i   |-> st.d_i]

\* the whole for loop over the imported names, in header order (each
\* intermediate state is bound as a value before the next pass uses it)
RECURSIVE ProcessImports(_, _, _)
ProcessImports(st, imports, idx) ==
    IF imports = <<>> THEN st
    ELSE CHOOSE r \in {ProcessImports(nxt, Tail(imports), idx) :
                           nxt \in {ImportOne(st, Head(imports), idx)}} : TRUE

\* AssembleText with each body appended instead of prepended
RECURSIVE AssembleTextAppend(_)
AssembleTextAppend(ts) ==
    IF ts = <<>> THEN <<>>
    ELSE <<Head(ts).body>> \o AssembleTextAppend(Tail(ts))

\* the final loop: final_text = body + final_text for each text in order
RECURSIVE AssembleText(_)
AssembleText(ts) ==
    IF ts = <<>> THEN <<>>
    ELSE AssembleText(Tail(ts)) \o <<Head(ts).body>>

\* the state after the loop body for index i (lines 88-110)
Iteration ==
    LET p      == PyPos(files, i)
        text   == IF texts[p].loaded THEN texts[p] ELSE import_npd(files[p])
        st0    == [files |-> files, texts |-> [texts EXCEPT ![p] = text], d_i |-> 1]
    IN CHOOSE r \in {ProcessImports(s0, text.imports, i) : s0 \in {st0}} : TRUE

\* the next loop iteration would carry files beyond the followed length
Overflow ==
    /\ pc = "loop" /\ i < Len(files) /\ PyPos(files, i) # 0
    /\ (texts[PyPos(files, i)].loaded \/ disk[files[PyPos(files, i)]].at # {})
    /\ Len(Iteration.files) > MaxFiles

\* a unit's first line gets one more imported name (before the program is run)
WriteImport(u, v) ==
    /\ pc = "setup"
    /\ disk[u].at # {}
    /\ u \in Reachable
    /\ v \notin Imports(u)
    /\ Len(disk[u].imports) < MaxHeader
    /\ NumEdges < MaxEdges
    /\ disk' = [disk EXCEPT ![u].imports = Append(@, v)]
    /\ UNCHANGED <<pc, err, files, texts, i, d_i, final_text>>
    /\ UNCHANGED notLoad

\* load_program lines 73-85
LoadEnter ==
    /\ pc = "setup"
    /\ IF disk[Entry].at \cap {1, 2} = {}
       THEN /\ pc' = "error"
            /\ err' = "UnitNotFound"
            /\ UNCHANGED <<files, texts, i>>
       ELSE /\ pc' = "loop"
            /\ files' = <<Entry>>
            /\ texts' = <<NoText>>
            /\ i' = 0
            /\ UNCHANGED err
    /\ UNCHANGED <<disk, d_i, final_text>>
    /\ UNCHANGED notLoad

\* load_program lines 87-110: one iteration of the while loop
LoadStep ==
    /\ pc = "loop"
    /\ i < Len(files)
    /\ LET p == PyPos(files, i)
       IN IF p = 0
          THEN \* texts[i] raises IndexError
               /\ pc' = "crash"
               /\ UNCHANGED <<err, files, texts, i, d_i>>
          ELSE IF ~texts[p].loaded /\ disk[files[p]].at = {}
          THEN \* import_npd raises NumpadError
               /\ pc' = "error"
               /\ err' = "UnitNotFound"
               /\ UNCHANGED <<files, texts, i, d_i>>
          ELSE /\ Len(Iteration.files) <= MaxFiles
               /\ files' = Iteration.files
               /\ texts' = Iteration.texts
               /\ d_i' = Iteration.d_i
               /\ i' = i + Iteration.d_i
               /\ UNCHANGED <<pc, err>>
    /\ UNCHANGED <<disk, final_text>>
    /\ UNCHANGED notLoad

\* load_program lines 112-114: the loop has ended, the bodies are concatenated
LoadAssemble ==
    /\ pc = "loop"
    /\ i >= Len(files)
    /\ IF \E k \in DOMAIN texts : ~texts[k].loaded
       THEN \* None.split raises AttributeError
            /\ pc' = "crash"
            /\ UNCHANGED final_text
       ELSE /\ pc' = "done"
            /\ final_text' = AssembleText(texts)
    /\ UNCHANGED <<disk, err, files, texts, i, d_i>>
    /\ UNCHANGED notLoad

\* the candidates that exist for each unit, before the program is loaded
Layouts ==
    LET Mixed == [E |-> {2, 3}, D |-> {1, 4}, C |-> {4}, B |-> {3, 4}]
    IN {Mixed,
        [Mixed EXCEPT !["C"] = {}],
        [Mixed EXCEPT ![Entry] = {}],
        [Mixed EXCEPT ![Entry] = {3, 4}]}

DiskInit ==
    \E at \in Layouts :
        disk = [u \in Names |-> [at |-> at[u], imports |-> <<>>]]

LoadInit ==
    /\ DiskInit
    /\ pc = "setup"
    /\ err = "none"
    /\ files = <<>>
    /\ texts = <<>>
    /\ i = 0
    /\ d_i = 1
    /\ final_text = <<>>

LoadNext ==
    \/ \E u \in Names, v \in Names : WriteImport(u, v)
    \/ LoadEnter
    \/ LoadStep
    \/ LoadAssemble

\* the interpreter before run() builds the root scope
RunIdle ==
    /\ stack = <<>>
    /\ heap = <<>>
    /\ status = "idle"
    /\ steps = 0
    /\ param = <<>>
    /\ result = [k |-> "none", v |-> 0]

\* no divide is under way
FloatIdle ==
    /\ fpc = "idle"
    /\ fargs = <<0, 1>>
    /\ dec = [sgn |-> 1, m |-> 0, r |-> 0, d |-> 1]
    /\ power = 0
    /\ fret = [k |-> "none", v |-> <<>>]

\* no block is being run
BlockIdle ==
    /\ ctl = <<>>
    /\ ended = [evals |-> 0, runs |-> 0]

Init == LoadInit /\ RunIdle /\ FloatIdle /\ BlockIdle

Next == LoadNext

\* load_program, safety
Spec == Init /\ [][Next]_vars

\* load_program runs to completion once called: its loop is a plain
\* sequential loop, so every enabled iteration is eventually taken
LiveSpec == Init /\ [][Next]_vars /\ WF_vars(LoadStep) /\ WF_vars(LoadAssemble)

----------------------------------------------------------------------------
(* Values, list objects and the scope chain (numpad.Scope, NullScope) *)

\* f"*0{i+1}": the name of the slot of the parameter at position k = i + 1
ParamNames == <<"01", "02", "03", "04", "05", "06", "07", "08", "09">>

\* slot names, written without the sigil
Slots == {"00", "1", "2"} \cup {ParamNames[k] : k \in 1..MaxLen}

\* runtime values: a Python int, a reference to a list object, a
\* FuncExpression (v is the position of its parameter defaults in DefParams)
IntV(n) == [k |-> "int", v |-> n]
ListV(r) == [k |-> "list", v |-> r]
FuncV(d) == [k |-> "func", v |-> d]
\* a name that is not a key of _variables
Unbound == [k |-> "none", v |-> 0]

\* the parameter-default lists of the function definitions of the program
DefParams == << <<>>, <<10>>, <<10, 20>> >>

\* s[n:] for any integer n
PySuffix(s, n) ==
    IF n >= 0 THEN SubSeq(s, Min(n, Len(s)) + 1, Len(s))
    ELSE SubSeq(s, Max(Len(s) + n, 0) + 1, Len(s))

EmptyVars == [n \in Slots |-> Unbound]

\* a lookup whose root scope yields 0 for a name it does not bind
RECURSIVE get_valueDefault(_, _, _)
get_valueDefault(frames, k, name) ==
    IF frames[k].vars[name] # Unbound THEN frames[k].vars[name]
    ELSE IF frames[k].parent = 0 THEN IntV(0)
    ELSE get_valueDefault(frames, frames[k].parent, name)

\* Scope.get_value / NullScope.get_value from scope k of the chain, through
\* the parents (parent 0: a NullScope, which has none); Unbound stands for
\* NullScope raising NumpadError("Variable ... is not defined.")
RECURSIVE get_value(_, _, _)
get_value(frames, k, name) ==
    IF frames[k].vars[name] # Unbound THEN frames[k].vars[name]
    ELSE IF frames[k].parent = 0 THEN Unbound
    ELSE get_value(frames, frames[k].parent, name)

\* an assignment that writes through to the nearest scope binding the name
set_valueNearest(frames, k, name, value) ==
    LET B == {j \in 1..k : frames[j].vars[name] # Unbound}
        j == IF B = {} THEN k ELSE CHOOSE m \in B : \A n \in B : n <= m
    IN [frames EXCEPT ![j].vars[name] = value]

\* Scope.set_value without indices: self._variables[variable_name] = value
set_value(frames, k, name, value) ==
    [frames EXCEPT ![k].vars[name] = value]

----------------------------------------------------------------------------
(* Expressions (numpad.Expression, OperExpression) *)

Lit(n) == [e |-> "lit", n |-> n]
Var(y) == [e |-> "var", y |-> y]
ListLit(es) == [e |-> "list", es |-> es]

Ok(val, h) == [st |-> "ok", val |-> val, heap |-> h]
Raise(kind, h) == [st |-> kind, val |-> Unbound, heap |-> h]

\* a new list object holding elems
NewList(elems, h) ==
    IF Len(elems) > MaxLen THEN Raise("cut", h)
    ELSE Ok(ListV(Len(h) + 1), Append(h, elems))

\* Expression.evaluate: an int literal, a slot, or a list literal whose
\* elements are evaluated in order into a new list
RECURSIVE Evaluate(_, _, _)
RECURSIVE EvaluateElems(_, _, _, _)
EvaluateElems(es, acc, frames, h) ==
    IF es = <<>> THEN NewList(acc, h)
    ELSE LET r == Evaluate(Head(es), frames, h)
         IN IF r.st # "ok" THEN r
            ELSE EvaluateElems(Tail(es), Append(acc, r.val), frames, r.heap)

Evaluate(ex, frames, h) ==
    IF ex.e = "lit" THEN Ok(IntV(ex.n), h)
    ELSE IF ex.e = "var"
    THEN LET v == get_value(frames, Len(frames), ex.y)
         IN IF v = Unbound THEN Raise("UndefinedSlot", h) ELSE Ok(v, h)
    ELSE EvaluateElems(ex.es, <<>>, frames, h)

Bool(b) == IF b THEN IntV(1) ELSE IntV(0)

\* x % y and x // y of Python ints, y # 0: the sign follows the divisor
PyMod(x, y) == IF y > 0 THEN x % y ELSE 0 - ((0 - x) % (0 - y))
PyFloorDiv(x, y) == IF y > 0 THEN x \div y ELSE (0 - x) \div (0 - y)

\* OperExpression._float_to_list on the quotient x / y when it is a whole
\* number: the loop body never runs and the list is [int(dec), 0]
float_to_list(x, y, h) ==
    IF PyMod(x, y) # 0 THEN Raise("cut", h)
    ELSE NewList(<<IntV(PyFloorDiv(x, y)), IntV(0)>>, h)

\* the operator symbols of the language
AllOps == {"..", ".+", ".-", "+", "-", "*", "/", "*+", "*-", "/+", "/-"}

\* OperExpression.oper_int_int (the power "*+" and the logarithm "*-" are
\* not followed)
IntIntOps == {"..", ".+", ".-", "+", "-", "*", "/", "/+", "/-"}
oper_int_int(op, x, y, h) ==
    IF op = ".." THEN Ok(Bool(x = y), h)
    ELSE IF op = ".+" THEN Ok(Bool(x > y), h)
    ELSE IF op = ".-" THEN Ok(Bool(x < y), h)
    ELSE IF op = "+" THEN Ok(IntV(x + y), h)
    ELSE IF op = "-" THEN Ok(IntV(x - y), h)
    ELSE IF op = "*" THEN Ok(IntV(x * y), h)
    ELSE IF y = 0 THEN Raise("ZeroDivisionError", h)
    ELSE IF op = "/" THEN float_to_list(x, y, h)
    ELSE IF op = "/+" THEN Ok(IntV(PyMod(x, y)), h)
    ELSE Ok(IntV(PyFloorDiv(x, y)), h)

\* a subtract that keeps the element at the index: x[:y] + x[y:]
oper_list_intKeep(op, x, y, h) ==
    IF op = ".." THEN Ok(Bool(Len(x) = y), h)
    ELSE IF op = ".+" THEN Ok(Bool(Len(x) > y), h)
    ELSE IF op = ".-" THEN Ok(Bool(Len(x) < y), h)
    ELSE IF op = "+" THEN NewList(Append(x, IntV(y)), h)
    ELSE IF op = "-" THEN NewList(PyPrefix(x, y) \o PySuffix(x, y), h)
    ELSE IF op = "/"
    THEN (IF PyPos(x, y) = 0 THEN Raise("IndexError", h) ELSE Ok(x[PyPos(x, y)], h))
    ELSE IF op = "/+" THEN NewList(PySuffix(x, y), h)
    ELSE NewList(PyPrefix(x, y), h)

\* OperExpression.oper_list_int: x the elements of the left list, y an int
ListIntOps == {"..", ".+", ".-", "+", "-", "/", "/+", "/-"}
oper_list_int(op, x, y, h) ==
    IF op = ".." THEN Ok(Bool(Len(x) = y), h)
    ELSE IF op = ".+" THEN Ok(Bool(Len(x) > y), h)
    ELSE IF op = ".-" THEN Ok(Bool(Len(x) < y), h)
    ELSE IF op = "+" THEN NewList(Append(x, IntV(y)), h)
    ELSE IF op = "-" THEN NewList(PyPrefix(x, y) \o PySuffix(x, y + 1), h)
    ELSE IF op = "/"
    THEN (IF PyPos(x, y) = 0 THEN Raise("IndexError", h) ELSE Ok(x[PyPos(x, y)], h))
    ELSE IF op = "/+" THEN NewList(PySuffix(x, y), h)
    ELSE NewList(PyPrefix(x, y), h)

\* OperExpression.oper_int_list
IntListOps == {"..", ".+", ".-"}
oper_int_list(op, x, y, h) ==
    IF op = ".." THEN Ok(Bool(x = Len(y)), h)
    ELSE IF op = ".+" THEN Ok(Bool(x > Len(y)), h)
    ELSE Ok(Bool(x < Len(y)), h)

\* a == b of two Python values: ints by value, lists element by element
\* (a FuncExpression equals only itself; the programs put none in a list)
RECURSIVE ValueEq(_, _, _)
ValueEq(a, b, h) ==
    IF a.k # b.k THEN FALSE
    ELSE IF a.k # "list" THEN a.v = b.v
    ELSE \/ a.v = b.v
         \/ /\ Len(h[a.v]) = Len(h[b.v])
            /\ \A k \in 1..Len(h[a.v]) : ValueEq(h[a.v][k], h[b.v][k], h)

\* all(i in x for i in y)
AllIn(y, x, h) ==
    \A k \in 1..Len(y) : \E j \in 1..Len(x) : ValueEq(y[k], x[j], h)

\* OperExpression.oper_list_list: x, y the elements of the two lists, rx, ry
\* the two lists themselves
ListListOps == {"..", ".+", ".-", "+", "*", "/+", "/-"}
oper_list_list(op, x, y, rx, ry, h) ==
    IF op = ".." THEN Ok(Bool(ValueEq(rx, ry, h)), h)
    ELSE IF op = "/+" THEN Ok(Bool(AllIn(y, x, h)), h)
    ELSE IF op = "/-" THEN Ok(Bool(AllIn(x, y, h)), h)
    ELSE IF op = ".+" THEN Ok(Bool(Len(x) > Len(y)), h)
    ELSE IF op = ".-" THEN Ok(Bool(Len(x) < Len(y)), h)
    ELSE IF op = "+" THEN NewList(Append(x, ry), h)
    ELSE NewList(x \o y, h)

\* a dispatch that looks the symbol up in the (list, int) table unchecked
DispatchKeyError(vl, op, vr, h) ==
    IF vl.k = "int" /\ vr.k = "int"
    THEN (IF op \notin IntIntOps THEN Raise("cut", h)
          ELSE oper_int_int(op, vl.v, vr.v, h))
    ELSE IF vl.k = "list" /\ vr.k = "int"
    THEN (IF op \notin ListIntOps THEN Raise("KeyError", h)
          ELSE oper_list_int(op, h[vl.v], vr.v, h))
    ELSE IF vl.k = "int" /\ vr.k = "list"
    THEN (IF op \notin IntListOps THEN Raise("UnsupportedOperation", h)
          ELSE oper_int_list(op, vl.v, h[vr.v], h))
    ELSE IF vl.k = "list" /\ vr.k = "list"
    THEN (IF op \notin ListListOps THEN Raise("UnsupportedOperation", h)
          ELSE oper_list_list(op, h[vl.v], h[vr.v], vl, vr, h))
    ELSE Raise("UnsupportedOperation", h)

\* OperExpression.evaluate on two evaluated operands, the (function, list)
\* pair excepted: dispatch on the pair of types
Dispatch(vl, op, vr, h) ==
    IF vl.k = "int" /\ vr.k = "int"
    THEN (IF op \notin IntIntOps THEN Raise("cut", h)
          ELSE oper_int_int(op, vl.v, vr.v, h))
    ELSE IF vl.k = "list" /\ vr.k = "int"
    THEN (IF op \notin ListIntOps THEN Raise("UnsupportedOperation", h)
          ELSE oper_list_int(op, h[vl.v], vr.v, h))
    ELSE IF vl.k = "int" /\ vr.k = "list"
    THEN (IF op \notin IntListOps THEN Raise("UnsupportedOperation", h)
          ELSE oper_int_list(op, vl.v, h[vr.v], h))
    ELSE IF vl.k = "list" /\ vr.k = "list"
    THEN (IF op \notin ListListOps THEN Raise("UnsupportedOperation", h)
          ELSE oper_list_list(op, h[vl.v], h[vr.v], vl, vr, h))
    ELSE Raise("UnsupportedOperation", h)

\* an OperExpression as an operand
Oper(l, op, r) == [e |-> "oper", l |-> l, op |-> op, r |-> r]

\* OperExpression.evaluate of an operand that is itself an OperExpression
\* (a call inside an operand is not followed)
RECURSIVE EvaluateOper(_, _, _)
EvaluateOper(ex, frames, h) ==
    IF ex.e # "oper" THEN Evaluate(ex, frames, h)
    ELSE LET el == EvaluateOper(ex.l, frames, h)
             er == EvaluateOper(ex.r, frames, el.heap)
         IN IF el.st # "ok" THEN el
            ELSE IF er.st # "ok" THEN er
            ELSE IF el.val.k = "func" /\ er.val.k = "list"
            THEN (IF ex.op # "-" THEN Raise("UnsupportedOperation", er.heap)
                  ELSE Raise("cut", er.heap))
            ELSE Dispatch(el.val, ex.op, er.val, er.heap)

----------------------------------------------------------------------------
(* Function invocation (numpad.FuncExpression.run) *)

\* a fill that appends every default, whatever the number of arguments
FillDefaultsAll(params, defaults) ==
    params \o [k \in 1..Len(defaults) |-> IntV(defaults[k])]

\* params[len(params):] = self._param[len(params):]
FillDefaults(params, defaults) ==
    params \o [k \in 1..(Len(defaults) - Len(params)) |->
                   IntV(defaults[Len(params) + k])]

\* a child scope built without the assignment of 0 to "*00"
ChildVarsNoAcc(params) ==
    [n \in Slots |->
        IF \E k \in 1..Len(params) : ParamNames[k] = n
        THEN params[CHOOSE k \in 1..Len(params) : ParamNames[k] = n]
        ELSE Unbound]

\* {f"*0{i+1}": val for i, val in enumerate(params)}, then "*00" set to 0
ChildVars(params) ==
    [n \in Slots |->
        IF n = "00" THEN IntV(0)
        ELSE IF \E k \in 1..Len(params) : ParamNames[k] = n
        THEN params[CHOOSE k \in 1..Len(params) : ParamNames[k] = n]
        ELSE Unbound]

\* FuncRun with the child made a child of the root scope, where the functions
\* of the program are defined, instead of the calling scope
FuncRunDefined(frames, h, fv, r, dst) ==
    LET filled == FillDefaults(h[r], DefParams[fv.v])
    IN IF Len(frames) >= MaxDepth \/ Len(filled) > MaxLen
       THEN [st |-> "cut", stack |-> frames, heap |-> h]
       ELSE [st |-> "ok",
             stack |-> Append(frames, [vars |-> ChildVars(filled), dst |-> dst,
                                      parent |-> 1]),
             heap |-> [h EXCEPT ![r] = filled]]

\* FuncExpression.run up to the start of the body: the argument list r is
\* filled in place and the child scope is put on the chain; dst is the slot
\* of the calling statement that takes the result
FuncRun(frames, h, fv, r, dst) ==
    LET filled == FillDefaults(h[r], DefParams[fv.v])
    IN IF Len(frames) >= MaxDepth \/ Len(filled) > MaxLen
       THEN [st |-> "cut", stack |-> frames, heap |-> h]
       ELSE [st |-> "ok",
             stack |-> Append(frames, [vars |-> ChildVars(filled), dst |-> dst,
                                      parent |-> Len(frames)]),
             heap |-> [h EXCEPT ![r] = filled]]

----------------------------------------------------------------------------
(* Statements (numpad.StatementSet, StatementSetIndex, StatementDef) *)

Failed(kind) == [st |-> kind, stack |-> stack, heap |-> heap]

\* a Set that stores a copy of a list instead of the list itself
RunSetCopy(x, ex) ==
    LET r == Evaluate(ex, stack, heap)
        c == IF r.val.k = "list" THEN NewList(r.heap[r.val.v], r.heap)
             ELSE Ok(r.val, r.heap)
    IN IF r.st # "ok" THEN Failed(r.st)
       ELSE [st |-> "ok", stack |-> set_value(stack, Len(stack), x, c.val),
             heap |-> c.heap]

\* StatementSet.run with a plain Expression on the right
RunSet(x, ex) ==
    LET r == Evaluate(ex, stack, heap)
    IN IF r.st # "ok" THEN Failed(r.st)
       ELSE [st |-> "ok", stack |-> set_value(stack, Len(stack), x, r.val),
             heap |-> r.heap]

\* StatementSet.run with an OperExpression on the right: both operands are
\* evaluated, then the pair of types decides; (function, list) is the call
RunSetOper(x, l, op, r) ==
    LET el == EvaluateOper(l, stack, heap)
        er == EvaluateOper(r, stack, el.heap)
        res == Dispatch(el.val, op, er.val, er.heap)
    IN IF el.st # "ok" THEN Failed(el.st)
       ELSE IF er.st # "ok" THEN Failed(er.st)
       ELSE IF el.val.k = "func" /\ er.val.k = "list"
       THEN (IF op # "-" THEN Failed("UnsupportedOperation")
             ELSE FuncRun(stack, er.heap, el.val, er.val.v, x))
       ELSE IF res.st # "ok" THEN Failed(res.st)
       ELSE [st |-> "ok", stack |-> set_value(stack, Len(stack), x, res.val),
             heap |-> res.heap]

\* an element of an index path: an int, or the name of a slot
Idx(n) == [s |-> "", n |-> n]
IdxSlot(y) == [s |-> y, n |-> 0]

\* the loop "for i in indices[:-1]" of Scope.set_value: from the value cur,
\* follow the indices; the result is the value reached
RECURSIVE WalkPath(_, _, _, _)
WalkPath(cur, path, frames, h) ==
    IF path = <<>> THEN Ok(cur, h)
    ELSE LET ix == IF Head(path).s = ""
                   THEN IntV(Head(path).n)
                   ELSE get_value(frames, Len(frames), Head(path).s)
         IN IF ix = Unbound THEN Raise("UndefinedSlot", h)
            ELSE IF cur.k # "list" \/ ix.k # "int" THEN Raise("TypeError", h)
            ELSE IF PyPos(h[cur.v], ix.v) = 0 THEN Raise("IndexError", h)
            ELSE WalkPath(h[cur.v][PyPos(h[cur.v], ix.v)], Tail(path), frames, h)

\* Scope.set_value with indices (lines 93-98) in scope k: the name is looked
\* up in this scope's own _variables, the last index is used as it is
set_value_indexed(frames, k, name, value, indices, h) ==
    LET start == frames[k].vars[name]
        last  == indices[Len(indices)]
        w     == WalkPath(start, SubSeq(indices, 1, Len(indices) - 1), frames, h)
    IN IF start = Unbound THEN Raise("KeyError", h)
       ELSE IF w.st # "ok" THEN w
       ELSE IF w.val.k # "list" \/ last.s # "" THEN Raise("TypeError", h)
       ELSE IF PyPos(h[w.val.v], last.n) = 0 THEN Raise("IndexError", h)
       ELSE Ok(w.val, [h EXCEPT ![w.val.v][PyPos(h[w.val.v], last.n)] = value])

\* StatementSetIndex.run (a path with no index is a plain set_value)
RunSetIndex(x, indices, ex) ==
    LET r == Evaluate(ex, stack, heap)
        w == set_value_indexed(stack, Len(stack), x, r.val, indices, r.heap)
    IN IF r.st # "ok" THEN Failed(r.st)
       ELSE IF indices = <<>>
       THEN [st |-> "ok", stack |-> set_value(stack, Len(stack), x, r.val),
             heap |-> r.heap]
       ELSE IF w.st # "ok" THEN Failed(w.st)
       ELSE [st |-> "ok", stack |-> stack, heap |-> w.heap]

\* StatementDef.run: a FuncExpression with the parameter defaults DefParams[d]
RunDef(x, d) ==
    [st |-> "ok", stack |-> set_value(stack, Len(stack), x, FuncV(d)), heap |-> heap]

\* the end of FuncExpression.run and of the calling StatementSet.run: the
\* child's "*00" is looked up, the child scope is dropped and the value is
\* set in the calling scope
RunReturn ==
    LET top == Len(stack)
        ret == get_value(stack, top, "00")
    IN [st |-> "ok",
        stack |-> set_value(SubSeq(stack, 1, top - 1), top - 1, stack[top].dst, ret),
        heap |-> heap]

\* the effect of one statement with outcome out
Finish(out) ==
    /\ out.st # "cut"
    /\ IF out.st = "ok"
       THEN /\ stack' = out.stack
            /\ heap' = out.heap
            /\ UNCHANGED status
       ELSE /\ status' = out.st
            /\ UNCHANGED <<stack, heap>>
    /\ UNCHANGED notRun

Running == status = "run" /\ steps < MaxSteps

StmtSet(x, ex) ==
    /\ Running
    /\ steps' = steps + 1
    /\ Finish(RunSet(x, ex))

StmtSetOper(x, l, op, r) ==
    /\ Running
    /\ steps' = steps + 1
    /\ Finish(RunSetOper(x, l, op, r))

StmtSetIndex(x, indices, ex) ==
    /\ Running
    /\ steps' = steps + 1
    /\ Finish(RunSetIndex(x, indices, ex))

StmtDef(x, d) ==
    /\ Running
    /\ steps' = steps + 1
    /\ Finish(RunDef(x, d))

\* the body of the running function has no statement left
Return ==
    /\ status = "run"
    /\ Len(stack) > 1
    /\ UNCHANGED steps
    /\ Finish(RunReturn)

----------------------------------------------------------------------------
(* numpadrun.run: the root scope, and the programs that are run *)

\* the integer parameters given to run
RunParams == {<<>>, <<3, 4>>}

\* variables = {f"*0{i}": int(val)}, NullScope(variables), set_value("*00", 0)
RootVars(vals) ==
    [n \in Slots |->
        IF n = "00" THEN IntV(0)
        ELSE IF \E k \in 2..Len(vals) : ParamNames[k - 1] = n
        THEN IntV(vals[CHOOSE k \in 2..Len(vals) : ParamNames[k - 1] = n])
        ELSE Unbound]

\* run lines 140-155: the root scope is built
RunInit ==
    /\ \E p \in RunParams :
          /\ param = p
          /\ stack = <<[vars |-> RootVars(p), dst |-> "00", parent |-> 0]>>
    /\ heap = <<>>
    /\ status = "run"
    /\ steps = 0
    /\ result = Unbound

\* load_program is over when the program runs
LoadIdle ==
    /\ disk = [u \in Names |-> [at |-> {1}, imports |-> <<>>]]
    /\ pc = "done"
    /\ err = "none"
    /\ files = <<Entry>>
    /\ texts = <<import_npd(Entry)>>
    /\ i = 1
    /\ d_i = 1
    /\ final_text = <<Entry>>

\* the statements of the programs on scopes and calls: slot "1" takes the
\* functions, the arguments are list literals
ScopeSets ==
    {<<x, ex>> : x \in {"00", "01", "1", "2"}, ex \in {Lit(7), Var("01"), Var("2")}}
ScopeCalls ==
    {<<x, Var("1"), "-", r>> : x \in {"00", "2"},
                               r \in {ListLit(<<Lit(5)>>), ListLit(<<Lit(5), Lit(6)>>)}}
ScopeDefs == {<<"1", d>> : d \in DOMAIN DefParams}

ScopeNext ==
    \/ \E t \in ScopeSets : StmtSet(t[1], t[2])
    \/ \E t \in ScopeCalls : StmtSetOper(t[1], t[2], t[3], t[4])
    \/ \E t \in ScopeDefs : StmtDef(t[1], t[2])
    \/ Return

ScopeInit == LoadIdle /\ RunInit /\ FloatIdle /\ BlockIdle

\* programs of Set, Define and calls run on a scope chain
ScopeSpec == ScopeInit /\ [][ScopeNext]_vars

\* the statements of the programs on lists: slot "2" takes the list literals,
\* slot "00" their aliases and the results of operators, slot "1" the functions
ListSets ==
    {<<"2", ListLit(<<Lit(1), Lit(2)>>)>>, <<"2", ListLit(<<Var("00"), Lit(3)>>)>>,
     <<"00", Var("2")>>, <<"01", Lit(0)>>}
ListOpers ==
    {<<"00", Var("2"), op, Lit(1)>> : op \in {"+", "-", "/", "/+", "/-"}}
    \cup {<<"00", Var("2"), op, Var("2")>> : op \in {"+", "*"}}
    \cup {<<"00", Var("1"), "-", Var("2")>>, <<"2", Var("1"), "-", ListLit(<<Lit(5)>>)>>}
ListSetIndexes ==
    {<<x, p, Lit(9)>> : x \in {"00", "2"},
                        p \in {<<Idx(0)>>, <<Idx(0), Idx(1)>>, <<IdxSlot("01"), Idx(0)>>}}
ListDefs == {<<"1", 1>>, <<"1", 3>>}

ListNext ==
    \/ \E t \in ListSets : StmtSet(t[1], t[2])
    \/ \E t \in ListOpers : StmtSetOper(t[1], t[2], t[3], t[4])
    \/ \E t \in ListSetIndexes : StmtSetIndex(t[1], t[2], t[3])
    \/ \E t \in ListDefs : StmtDef(t[1], t[2])
    \/ Return

ListInit == LoadIdle /\ RunInit /\ FloatIdle /\ BlockIdle

\* programs of Set, SetIndex, list operators and calls run on shared lists
ListSpec == ListInit /\ [][ListNext]_vars

\* the statements of the programs on index paths: slot "2" takes a list of
\* ints, slot "1" a list whose first element is the list of slot "2", slot
\* "01" the ints used as indices
IndexSets ==
    {<<"2", ListLit(<<Lit(1), Lit(2)>>)>>, <<"1", ListLit(<<Var("2"), Lit(3)>>)>>}
    \cup {<<"01", Lit(n)>> : n \in {-1, 0, 1, 2}}
IndexPaths ==
    {<<Idx(0)>>, <<Idx(-1)>>, <<Idx(2)>>, <<Idx(0), Idx(1)>>, <<Idx(1), Idx(0)>>,
     <<Idx(0), Idx(-3)>>, <<IdxSlot("01")>>, <<IdxSlot("01"), Idx(0)>>,
     <<Idx(0), IdxSlot("01")>>}
IndexSetIndexes ==
    {<<x, p, Lit(9)>> : x \in {"1", "2"}, p \in IndexPaths}

IndexNext ==
    \/ \E t \in IndexSets : steps < MaxIndexSteps /\ StmtSet(t[1], t[2])
    \/ \E t \in IndexSetIndexes :
          steps < MaxIndexSteps /\ StmtSetIndex(t[1], t[2], t[3])

IndexInit == LoadIdle /\ RunInit /\ FloatIdle /\ BlockIdle

\* programs of Set and SetIndex with index paths of every kind
IndexSpec == IndexInit /\ [][IndexNext]_vars

\* the statements of the programs that call with a slot as argument vector:
\* slot "2" takes the lists, slot "1" the functions, slot "00" reads the
\* parameter slots in a body
ArgSets ==
    {<<"2", ListLit(<<>>)>>, <<"2", ListLit(<<Lit(5)>>)>>,
     <<"2", ListLit(<<Lit(5), Lit(6)>>)>>,
     <<"00", Var("01")>>, <<"00", Var("02")>>, <<"00", Var("2")>>}
ArgCalls == {<<x, Var("1"), "-", Var("2")>> : x \in {"00", "2"}}
ArgDefs == {<<"1", d>> : d \in DOMAIN DefParams}

ArgNext ==
    \/ \E t \in ArgSets : StmtSet(t[1], t[2])
    \/ \E t \in ArgCalls : StmtSetOper(t[1], t[2], t[3], t[4])
    \/ \E t \in ArgDefs : StmtDef(t[1], t[2])
    \/ Return

ArgInit == LoadIdle /\ RunInit /\ FloatIdle /\ BlockIdle

\* programs whose calls take the argument vector from a slot
ArgSpec == ArgInit /\ [][ArgNext]_vars

----------------------------------------------------------------------------
(* numpadrun.run, from the parameters to the returned value *)

\* the integer lists given to run
RunArgs ==
    {<<>>} \cup {<<a>> : a \in {0, 3}} \cup {<<a, b>> : a \in {0, 3}, b \in {0, 4}}

\* run lines 138-155: the program is loaded, the root scope is built from param
RunEnter ==
    /\ pc = "done"
    /\ status = "idle"
    /\ stack' = <<[vars |-> RootVars(param), dst |-> "00", parent |-> 0]>>
    /\ status' = "run"
    /\ UNCHANGED <<heap, steps, param, result>>
    /\ UNCHANGED notStmt

\* run lines 157-159: the program is over, return scope.get_value("*00")
RunExit ==
    /\ status = "run"
    /\ Len(stack) = 1 /\ ctl = <<>>
    /\ result' = get_value(stack, 1, "00")
    /\ status' = "done"
    /\ UNCHANGED <<stack, heap, steps, param>>
    /\ UNCHANGED notStmt

\* the statements of the programs that are run from run
RunSets ==
    {<<x, ex>> : x \in {"00", "1"}, ex \in {Lit(7), Var("00"), Var("01")}}

RunNext ==
    \/ RunEnter
    \/ \E t \in RunSets : steps < MaxRunSteps /\ StmtSet(t[1], t[2])
    \/ RunExit

RunStart ==
    /\ LoadIdle /\ FloatIdle /\ BlockIdle
    /\ stack = <<>>
    /\ heap = <<>>
    /\ status = "idle"
    /\ steps = 0
    /\ param \in RunArgs
    /\ result = Unbound

\* run with its parameters, on programs of Set statements
RunSpec == RunStart /\ [][RunNext]_vars

----------------------------------------------------------------------------
(* Blocks, If and While (numpad.StatementBlock, StatementIf, StatementWhile) *)

\* "if value:" of Python: an int is true when not 0, a list when not empty,
\* a FuncExpression always
Truthy(v, h) ==
    IF v.k = "int" THEN v.v # 0
    ELSE IF v.k = "list" THEN Len(h[v.v]) > 0
    ELSE TRUE

\* the statements of a block: StatementSet with an Expression or with an
\* OperExpression, StatementIf without and with set_else, StatementWhile
Stm(s, x, l, op, r, stmt, else_stmt, has_else) ==
    [s |-> s, x |-> x, l |-> l, op |-> op, r |-> r, stmt |-> stmt,
     else_stmt |-> else_stmt, has_else |-> has_else]
BSet(x, ex) == Stm("set", x, ex, "", ex, <<>>, <<>>, FALSE)
BOper(x, l, op, r) == Stm("oper", x, l, op, r, <<>>, <<>>, FALSE)
If(expr, stmt) == Stm("if", "", expr, "", expr, stmt, <<>>, FALSE)
IfElse(expr, stmt, else_stmt) == Stm("if", "", expr, "", expr, stmt, else_stmt, TRUE)
While(expr, stmt) == Stm("while", "", expr, "", expr, stmt, <<>>, FALSE)

\* a block being run: "for stmt in self._stmts" at position pos; for the body
\* of a While its condition, and how often the condition was evaluated and
\* the body started
Frame(kind, expr, block, evals, runs) ==
    [kind |-> kind, expr |-> expr, block |-> block, pos |-> 1,
     evals |-> evals, runs |-> runs]

\* an If that runs its else block after its block
RunIfBoth(st) ==
    LET value == EvaluateOper(st.l, stack, heap)
    IN IF value.st # "ok" THEN [st |-> value.st, heap |-> heap, push |-> <<>>]
       ELSE IF Truthy(value.val, value.heap)
       THEN [st |-> "ok", heap |-> value.heap,
             push |-> <<Frame("else", st.l, st.else_stmt, 1, 1),
                        Frame("if", st.l, st.stmt, 1, 1)>>]
       ELSE IF st.has_else
       THEN [st |-> "ok", heap |-> value.heap,
             push |-> <<Frame("else", st.l, st.else_stmt, 1, 1)>>]
       ELSE [st |-> "ok", heap |-> value.heap, push |-> <<>>]

\* StatementIf.run: the condition is evaluated, then one block at most is run
RunIf(st) ==
    LET value == EvaluateOper(st.l, stack, heap)
    IN IF value.st # "ok" THEN [st |-> value.st, heap |-> heap, push |-> <<>>]
       ELSE IF Truthy(value.val, value.heap)
       THEN [st |-> "ok", heap |-> value.heap,
             push |-> <<Frame("if", st.l, st.stmt, 1, 1)>>]
       ELSE IF st.has_else
       THEN [st |-> "ok", heap |-> value.heap,
             push |-> <<Frame("else", st.l, st.else_stmt, 1, 1)>>]
       ELSE [st |-> "ok", heap |-> value.heap, push |-> <<>>]

\* a While that runs its body before the first test of the condition
RunWhileDo(st) ==
    LET value == EvaluateOper(st.l, stack, heap)
    IN IF value.st # "ok" THEN [st |-> value.st, heap |-> heap, push |-> <<>>]
       ELSE [st |-> "ok", heap |-> value.heap,
             push |-> <<Frame("while", st.l, st.stmt, 1, 1)>>]

\* StatementWhile.run up to the first run of the body
RunWhile(st) ==
    LET value == EvaluateOper(st.l, stack, heap)
    IN IF value.st # "ok" THEN [st |-> value.st, heap |-> heap, push |-> <<>>]
       ELSE IF Truthy(value.val, value.heap)
       THEN [st |-> "ok", heap |-> value.heap,
             push |-> <<Frame("while", st.l, st.stmt, 1, 1)>>]
       ELSE [st |-> "ok", heap |-> value.heap, push |-> <<>>]

\* the chain of blocks after the statement at the position of the innermost
\* block was run and pushed the blocks push
Advance(push) ==
    [ctl EXCEPT ![Len(ctl)].pos = @ + 1] \o push

\* the current statement of the innermost block
Current == ctl[Len(ctl)].block[ctl[Len(ctl)].pos]

\* a block of an If or While run in a new child scope of the given one
BlockScopeChild(frames) ==
    Append(frames, [vars |-> EmptyVars, dst |-> "00", parent |-> Len(frames)])

\* self._stmt.run(scope), self._else_stmt.run(scope): the scope chain in which
\* the block of an If or While runs is the one the statement was run in
BlockScope(frames) == frames

\* program.run(scope), self._stmt.run(child): a StatementBlock starts to run
\* in the top scope
RunBlock(block) ==
    /\ status = "run"
    /\ ctl = <<>>
    /\ ctl' = <<Frame("block", Lit(0), block, 0, 0)>>
    /\ UNCHANGED <<ended, ivars>>
    /\ UNCHANGED notBlock

\* StatementBlock.run: the next statement of the innermost block is run (a
\* call inside a block is not followed)
BlockStep ==
    /\ Running
    /\ ctl # <<>>
    /\ ctl[Len(ctl)].pos <= Len(ctl[Len(ctl)].block)
    /\ steps' = steps + 1
    /\ LET st == Current
           out == IF st.s = "set" THEN RunSet(st.x, st.l)
                  ELSE RunSetOper(st.x, st.l, st.op, st.r)
           c == IF st.s = "if" THEN RunIf(st) ELSE RunWhile(st)
       IN IF st.s \in {"set", "oper"}
          THEN /\ out.st # "cut"
               /\ Len(out.stack) = Len(stack)
               /\ IF out.st = "ok"
                  THEN /\ stack' = out.stack
                       /\ heap' = out.heap
                       /\ ctl' = Advance(<<>>)
                       /\ UNCHANGED status
                  ELSE /\ status' = out.st
                       /\ UNCHANGED <<stack, heap, ctl>>
               /\ UNCHANGED ended
          ELSE /\ c.st # "cut"
               /\ IF c.st = "ok"
                  THEN /\ heap' = c.heap
                       /\ ctl' = Advance(c.push)
                       /\ ended' = IF st.s = "while" /\ c.push = <<>>
                                   THEN [evals |-> 1, runs |-> 0] ELSE ended
                       /\ UNCHANGED status
                  ELSE /\ status' = c.st
                       /\ UNCHANGED <<heap, ctl, ended>>
               /\ stack' = IF c.st = "ok" /\ c.push # <<>>
                           THEN BlockScope(stack) ELSE stack
    /\ UNCHANGED notBlock

\* the innermost block has no statement left: a block of an If or a plain
\* block is over; after the body of a While the condition is evaluated again
BlockEnd ==
    /\ status = "run"
    /\ ctl # <<>>
    /\ ctl[Len(ctl)].pos > Len(ctl[Len(ctl)].block)
    /\ LET top == ctl[Len(ctl)]
           rest == SubSeq(ctl, 1, Len(ctl) - 1)
           value == EvaluateOper(top.expr, stack, heap)
       IN IF top.kind # "while"
          THEN /\ ctl' = rest
               /\ UNCHANGED <<heap, status, ended>>
          ELSE /\ value.st # "cut"
               /\ IF value.st # "ok"
                  THEN /\ status' = value.st
                       /\ UNCHANGED <<heap, ctl, ended>>
                  ELSE /\ heap' = value.heap
                       /\ UNCHANGED status
                       /\ IF Truthy(value.val, value.heap)
                          THEN /\ ctl' = [ctl EXCEPT ![Len(ctl)].pos = 1,
                                                     ![Len(ctl)].evals = @ + 1,
                                                     ![Len(ctl)].runs = @ + 1]
                               /\ UNCHANGED ended
                          ELSE /\ ctl' = rest
                               /\ ended' = [evals |-> top.evals + 1, runs |-> top.runs]
    /\ UNCHANGED <<stack, steps>>
    /\ UNCHANGED notBlock

\* the blocks that are run: slot "1" takes the conditions
CtlBlocks ==
    {<<IfElse(Var("1"), <<BSet("00", Lit(7))>>, <<BSet("00", Lit(8))>>)>>,
     <<If(Var("1"), <<BSet("00", Lit(7))>>), BSet("2", Var("00"))>>,
     <<While(Var("1"), <<BOper("1", Var("1"), "-", Lit(1))>>)>>,
     <<While(Var("1"), <<BOper("1", Var("1"), "-", Lit(0))>>)>>,
     <<If(Var("1"), <<While(Var("00"), <<BSet("00", Lit(0))>>)>>)>>}
\* the statements run before a block: slot "1" takes an int or a list, slot
\* "02" the function whose body the blocks may be
CtlSets ==
    {<<"1", ex>> : ex \in {Lit(0), Lit(2), Lit(-1), ListLit(<<Lit(1), Lit(2)>>)}}
    \cup {<<"00", Lit(1)>>}
CtlOpers == {<<"1", Var("1"), "/+", Lit(2)>>, <<"00", Var("02"), "-", ListLit(<<Lit(5)>>)>>}
CtlDefs == {<<"02", 1>>}

CtlNext ==
    \/ \E t \in CtlSets : ctl = <<>> /\ StmtSet(t[1], t[2])
    \/ \E t \in CtlOpers : ctl = <<>> /\ StmtSetOper(t[1], t[2], t[3], t[4])
    \/ \E t \in CtlDefs : ctl = <<>> /\ StmtDef(t[1], t[2])
    \/ ctl = <<>> /\ Return
    \/ \E b \in CtlBlocks : RunBlock(b)
    \/ BlockStep
    \/ BlockEnd

CtlInit == LoadIdle /\ RunInit /\ FloatIdle /\ BlockIdle

\* programs with If and While statements, in the root scope or in a function body
CtlSpec == CtlInit /\ [][CtlNext]_vars

\* the statements of the programs on operators: slot "1" takes lists, slot
\* "2" an int or a list, slot "01" a function (or the int given to run)
OperSets ==
    {<<"1", ListLit(<<Lit(1), Lit(2)>>)>>, <<"1", ListLit(<<Lit(4)>>)>>,
     <<"2", Lit(3)>>, <<"2", ListLit(<<Lit(1), Lit(2)>>)>>}
OperDefs == {<<"01", 2>>}
OperOpers ==
    {<<"00", Var(a), op, Var(b)>> : a \in {"1", "2", "01"}, b \in {"1", "2", "01"},
                                    op \in AllOps}
    \cup {<<"1", Var("1"), "-", Lit(0)>>}
RoundTrips ==
    {<<x, Oper(Var("1"), "+", Lit(v)), "-", Lit(n)>> :
        x \in {"00", "1"}, v \in {7}, n \in 0..MaxLen}
\* the subtracts of an int literal of either sign from the list of slot "1"
Removes ==
    {<<"00", Var("1"), "-", Lit(n)>> : n \in (0 - MaxLen)..MaxLen}

\* the programs on operators have at most MaxOperSteps statements
OperNext ==
    \/ \E t \in OperSets : steps < MaxOperSteps /\ StmtSet(t[1], t[2])
    \/ \E t \in OperOpers : steps < MaxOperSteps /\ StmtSetOper(t[1], t[2], t[3], t[4])
    \/ \E t \in RoundTrips : steps < MaxOperSteps /\ StmtSetOper(t[1], t[2], t[3], t[4])
    \/ \E t \in Removes : steps < MaxOperSteps /\ StmtSetOper(t[1], t[2], t[3], t[4])
    \/ \E t \in OperDefs : steps < MaxOperSteps /\ StmtDef(t[1], t[2])
    \/ Return

OperInit == LoadIdle /\ RunInit /\ FloatIdle /\ BlockIdle

\* programs of operators on ints, lists and functions
OperSpec == OperInit /\ [][OperNext]_vars

----------------------------------------------------------------------------
(* The divide of two ints (oper_int_int['/'], OperExpression._float_to_list) *)

Abs(n) == IF n < 0 THEN 0 - n ELSE n

\* the operands of the divides that are run; for all of them the double
\* arithmetic of the code and the exact arithmetic kept here give the same
\* fraction test and the same digits as far as the loop is followed
DivXs == (0 - MaxDividend)..MaxDividend
DivYs == {-4, -3, -1, 0, 1, 2, 3, 4, 8, 3000}

\* x / y for y # 0: the sign, the whole part m and the remainder r over d
Quotient(x, y) ==
    [sgn |-> IF x # 0 /\ ((x < 0) # (y < 0)) THEN -1 ELSE 1,
     m |-> Abs(x) \div Abs(y), r |-> Abs(x) % Abs(y), d |-> Abs(y)]

\* dec % 1 (true when not zero)
HasFraction(q) == q.r # 0

\* dec *= 10
TimesTen(q) ==
    [q EXCEPT !.m = q.m * 10 + ((q.r * 10) \div q.d), !.r = (q.r * 10) % q.d]

\* a result that is the bare int when no scaling step was made
FloatResultInt(q, pw) ==
    IF pw = 0 THEN [k |-> "int", v |-> q.sgn * q.m]
    ELSE [k |-> "list", v |-> <<q.sgn * q.m, pw>>]

\* return [int(dec), power]
FloatResult(q, pw) == [k |-> "list", v |-> <<q.sgn * q.m, pw>>]

\* lambda x, y: OperExpression._float_to_list(x / y), up to the loop
Divide(x, y) ==
    /\ fpc = "idle"
    /\ fargs' = <<x, y>>
    /\ IF y = 0
       THEN /\ fpc' = "ZeroDivisionError"
            /\ UNCHANGED <<dec, power>>
       ELSE /\ fpc' = "loop"
            /\ dec' = Quotient(x, y)
            /\ power' = 0
    /\ UNCHANGED fret
    /\ UNCHANGED notFloat

\* one turn of "while dec % 1 and power < 10"
ScaleStep ==
    /\ fpc = "loop"
    /\ HasFraction(dec) /\ power < 10
    /\ dec.m <= (MaxMantissa - 9) \div 10
    /\ power' = power - 1
    /\ dec' = TimesTen(dec)
    /\ UNCHANGED <<fpc, fargs, fret>>
    /\ UNCHANGED notFloat

\* the loop condition is false: the list is returned
FloatReturn ==
    /\ fpc = "loop"
    /\ ~(HasFraction(dec) /\ power < 10)
    /\ fret' = FloatResult(dec, power)
    /\ fpc' = "done"
    /\ UNCHANGED <<fargs, dec, power>>
    /\ UNCHANGED notFloat

DivInit == LoadIdle /\ RunIdle /\ FloatIdle /\ BlockIdle

DivNext ==
    \/ \E x \in DivXs, y \in DivYs : Divide(x, y)
    \/ ScaleStep
    \/ FloatReturn

\* divides of two ints, followed through the scaling loop
DivSpec == DivInit /\ [][DivNext]_vars

----------------------------------------------------------------------------
(* Properties of load_program *)

Count(s, x) == Cardinality({k \in DOMAIN s : s[k] = x})

\* C1: resolution of a dependency graph with a cycle reachable from the entry
\* unit always ends by reporting an ImportCycle error (it never loops for ever).
\* A run cut by the bound on files is not counted against the claim.
C1_CycleReported ==
    (pc = "loop" /\ HasCycle /\ AllLoadable)
        ~> ((pc = "error" /\ err = "ImportCycle") \/ Overflow)

\* C2: for an acyclic graph, every occurrence of a unit's body in the
\* concatenated text is preceded by the body of each unit it imports.
C2_DepsPrecede ==
    (pc = "done" /\ Acyclic) =>
        \A k \in DOMAIN final_text :
            \A v \in Imports(final_text[k]) :
                \E m \in 1..(k - 1) : final_text[m] = v

\* C2 witness: E imports D, D imports C, and the text is C-body, D-body, E-body
C2_Witness ==
    /\ pc = "done"
    /\ disk["E"].imports = <<"D">>
    /\ disk["D"].imports = <<"C">>
    /\ disk["C"].imports = <<>>
    /\ final_text = <<"C", "D", "E">>

\* C3: for an acyclic graph whose units can all be loaded, the processing
\* index eventually reaches the length of the discovered list.
C3_LoopTerminates ==
    (pc = "loop" /\ Acyclic /\ AllLoadable) ~> (pc \in {"loop", "done"} /\ i >= Len(files))

\* C3 witness: an iteration on an acyclic graph moved two or more units, so
\* the index step was negative
C3_Witness ==
    /\ pc = "loop" /\ Acyclic /\ AllLoadable
    /\ d_i < 0

\* C4: for an acyclic graph, each unit reachable from the entry occurs exactly
\* once in the final discovered list and in the concatenated program.
C4_EachUnitOnce ==
    (pc = "done" /\ Acyclic) =>
        \A u \in Reachable : Count(files, u) = 1 /\ Count(final_text, u) = 1

----------------------------------------------------------------------------
(* Properties of scopes and calls *)

\* the values of the arguments of a call statement, all int literals
ArgsOf(t) == [k \in 1..Len(t[4].es) |-> IntV(t[4].es[k].n)]

\* C5: when a function with N defaults is called with M arguments, the body
\* starts with slots 01..0M bound to the arguments and, if M < N, slots
\* 0(M+1)..0N bound to the defaults at those positions; no other parameter
\* slot is bound (nothing is cut off, no default replaces an argument).
C5_DefaultFill ==
    [][\A t \in ScopeCalls :
          (StmtSetOper(t[1], t[2], t[3], t[4]) /\ Len(stack') = Len(stack) + 1) =>
              LET D == DefParams[get_value(stack, Len(stack), "1").v]
                  A == ArgsOf(t)
                  child == stack'[Len(stack')].vars
              IN /\ \A k \in 1..Len(A) : child[ParamNames[k]] = A[k]
                 /\ \A k \in (Len(A) + 1)..Len(D) : child[ParamNames[k]] = IntV(D[k])
                 /\ \A k \in (Max(Len(A), Len(D)) + 1)..MaxLen :
                        child[ParamNames[k]] = Unbound]_vars

\* C5 witness: defaults [10, 20] called with [5]: the body starts with
\* slot 01 = 5 and slot 02 = 20
C5_Witness ==
    /\ steps = 2 /\ Len(stack) = 2
    /\ stack[1].vars["1"] = FuncV(3)
    /\ stack[2].vars["01"] = IntV(5)
    /\ stack[2].vars["02"] = IntV(20)

\* C6: a call starts its child scope with slot 00 = 0 and leaves the caller's
\* slot 00 as it was; inside a scope, slot 00 changes only by a Set to 00
\* executed in that scope; when the body ends, its result, the value bound to
\* slot 00 of the child scope, goes to the target slot of the calling
\* statement, and the caller's slot 00 changes only if it is that target.
C6_ResultIsChildAcc ==
    [][LET top == Len(stack)
       IN /\ Len(stack') = top + 1 =>
                /\ stack'[top + 1].vars["00"] = IntV(0)
                /\ stack'[top].vars["00"] = stack[top].vars["00"]
          /\ Len(stack') = top - 1 =>
                /\ stack'[top - 1].vars[stack[top].dst] = stack[top].vars["00"]
                /\ stack[top].dst # "00" =>
                       stack'[top - 1].vars["00"] = stack[top - 1].vars["00"]
          /\ (Len(stack') = top /\ stack'[top].vars["00"] # stack[top].vars["00"]) =>
                \E t \in ScopeSets : t[1] = "00" /\ StmtSet(t[1], t[2])
          /\ \A k \in 1..(top - 1) :
                k < Len(stack') => stack'[k].vars["00"] = stack[k].vars["00"]]_vars

\* C6 witness: slot 00 of the caller holds 7, a function whose body assigns
\* nothing is called into slot 2 and has returned: slot 2 = 0, slot 00 = 7
C6_Witness ==
    /\ steps = 3 /\ Len(stack) = 1
    /\ stack[1].vars["00"] = IntV(7)
    /\ stack[1].vars["2"] = IntV(0)

\* C7: a Set or Define executed in a scope changes no scope below it on the
\* chain, and lookups from the executing scope see the new value; a call puts
\* a child on the chain and leaves the caller's scope as it was (the child
\* looks up through it); a return changes, in the caller's scope, only the
\* target slot of the calling statement, so every other name reads as before
\* the call. This holds at every depth of nested calls.
C7_Shadowing ==
    [][LET top == Len(stack)
       IN /\ \A k \in 1..(top - 1) : k < Len(stack') => stack'[k] = stack[k]
          /\ Len(stack') = top + 1 =>
                /\ stack'[top] = stack[top]
                /\ \A n \in Slots :
                      stack'[top + 1].vars[n] = Unbound =>
                          get_value(stack', top + 1, n) = get_value(stack, top, n)
          /\ Len(stack') = top - 1 =>
                \A n \in Slots \ {stack[top].dst} :
                    stack'[top - 1].vars[n] = stack[top - 1].vars[n]
          /\ \A t \in ScopeSets :
                (StmtSet(t[1], t[2]) /\ status' = "run") =>
                    get_value(stack', top, t[1]) = Evaluate(t[2], stack, heap).val
          /\ \A t \in ScopeDefs :
                StmtDef(t[1], t[2]) => get_value(stack', top, t[1]) = FuncV(t[2])]_vars

\* C7 witness: slot 1 holds a function in the root scope; two calls deep, the
\* body sets slot 1 to 7: the root still holds the function and the scope in
\* between binds nothing for slot 1
C7_Witness ==
    /\ Len(stack) = 3
    /\ stack[3].vars["1"] = IntV(7)
    /\ stack[2].vars["1"] = Unbound
    /\ stack[1].vars["1"].k = "func"

\* C8: a Set whose right side is a slot takes the value bound in the nearest
\* scope of the chain that binds the slot, counting from the executing scope;
\* when no scope down to the root binds it, the statement fails with
\* UndefinedSlot and assigns nothing (no default value is used).
C8_NearestBinding ==
    [][\A t \in ScopeSets :
          (t[2].e = "var" /\ StmtSet(t[1], t[2])) =>
              LET top == Len(stack)
                  B == {k \in 1..top : stack[k].vars[t[2].y] # Unbound}
              IN IF B = {}
                 THEN status' = "UndefinedSlot" /\ stack' = stack /\ heap' = heap
                 ELSE /\ status' = "run"
                      /\ \E k \in B :
                            /\ \A m \in B : m <= k
                            /\ stack'[top].vars[t[1]] = stack[k].vars[t[2].y]]_vars

\* C8 witness: the root binds slot 01 to 4, the child binds it to 5; the body
\* read 5 from slot 01 into slot 00, then read slot 2, which no scope binds
C8_Witness ==
    /\ status = "UndefinedSlot"
    /\ Len(stack) = 2
    /\ stack[1].vars["01"] = IntV(4)
    /\ stack[2].vars["01"] = IntV(5)
    /\ stack[2].vars["00"] = IntV(5)
    /\ stack[1].vars["2"] = Unbound /\ stack[2].vars["2"] = Unbound

----------------------------------------------------------------------------
(* Properties of lists *)

\* the list that holds the element an index path p names, from the value a
IndexTarget(a, p) == WalkPath(a, SubSeq(p, 1, Len(p) - 1), stack, heap)

\* the heap after the element that p names from a is overwritten with value
Overwritten(a, p, value) ==
    LET r == IndexTarget(a, p).val.v
    IN [heap EXCEPT ![r][PyPos(heap[r], p[Len(p)].n)] = value]

\* the statement put a new list object in slot x and changed no existing one
FreshList(x) ==
    /\ stack'[Len(stack)].vars[x] = ListV(Len(heap) + 1)
    /\ Len(heap') = Len(heap) + 1
    /\ \A r \in 1..Len(heap) : heap'[r] = heap[r]

\* the list-producing operators: add, subtract, slice-from, slice-to, concatenate
ProducingOps == {"+", "-", "/+", "/-", "*"}

\* C9: a Set from a slot holding a List binds the target to the same List
\* object (no List is created); an indexed assignment through a slot
\* overwrites the element in that one List object, so every slot of every
\* scope bound to the same List reads the new element; the Lists produced by
\* add, subtract, slice, concatenate and by a list literal are new objects,
\* and producing them changes no existing List.
C9_Aliasing ==
    [][LET top == Len(stack)
       IN /\ \A t \in ListSets :
                (t[2].e = "var" /\ StmtSet(t[1], t[2]) /\ status' = "run") =>
                    /\ heap' = heap
                    /\ stack'[top].vars[t[1]] = get_value(stack, top, t[2].y)
          /\ \A t \in ListSetIndexes :
                (StmtSetIndex(t[1], t[2], t[3]) /\ status' = "run") =>
                    /\ stack' = stack
                    /\ heap' = Overwritten(stack[top].vars[t[1]], t[2], IntV(t[3].n))
                    /\ Len(t[2]) = 1 =>
                          \A k \in 1..top : \A n \in Slots :
                              stack[k].vars[n] = stack[top].vars[t[1]] =>
                                  heap'[stack'[k].vars[n].v][t[2][1].n + 1] = IntV(t[3].n)
          /\ \A t \in ListSets :
                (t[2].e = "list" /\ StmtSet(t[1], t[2]) /\ status' = "run") =>
                    FreshList(t[1])
          /\ \A t \in ListOpers :
                (/\ t[3] \in ProducingOps
                 /\ StmtSetOper(t[1], t[2], t[3], t[4])
                 /\ status' = "run" /\ Len(stack') = top
                 /\ stack'[top].vars[t[1]].k = "list") => FreshList(t[1])]_vars

\* C9 witness: slots 2 and 00 of the root hold the same List, built as [1, 2],
\* and the indexed assignment of 9 at index 0 shows through both
C9_Witness ==
    /\ Len(stack) = 1 /\ steps = 3
    /\ stack[1].vars["2"].k = "list"
    /\ stack[1].vars["00"] = stack[1].vars["2"]
    /\ heap[stack[1].vars["2"].v] = <<IntV(9), IntV(2)>>

\* C10: an indexed assignment executed in a scope that does not bind the
\* name itself, while an ancestor binds it to a List in which the index path
\* is valid, succeeds: it overwrites the element in the ancestor's List and
\* binds nothing in the executing scope.
C10_ResolvesThroughLookup ==
    [][\A t \in ListSetIndexes :
          LET top == Len(stack)
              a == get_value(stack, top, t[1])
              w == IndexTarget(a, t[2])
          IN (/\ StmtSetIndex(t[1], t[2], t[3])
              /\ stack[top].vars[t[1]] = Unbound
              /\ a.k = "list"
              /\ w.st = "ok" /\ w.val.k = "list"
              /\ PyPos(heap[w.val.v], t[2][Len(t[2])].n) # 0)
             => /\ status' = "run"
                /\ stack' = stack
                /\ heap' = Overwritten(a, t[2], IntV(t[3].n))]_vars

----------------------------------------------------------------------------
(* Properties of the divide of two ints *)

RECURSIVE Pow10(_)
Pow10(k) == IF k = 0 THEN 1 ELSE 10 * Pow10(k - 1)

\* C11 as claimed: when y # 0 divides x evenly, the divide returns the
\* Integer quotient itself, not a two-element List.
C11_ExactQuotientIsInteger ==
    (fpc = "done" /\ PyMod(fargs[1], fargs[2]) = 0) =>
        (fret.k = "int" /\ fret.v = PyFloorDiv(fargs[1], fargs[2]))

\* C11 as amended: when y # 0 divides x evenly, the divide returns the
\* two-element List [quotient, 0].
C11_ExactQuotientIsPair ==
    (fpc = "done" /\ PyMod(fargs[1], fargs[2]) = 0) =>
        (fret.k = "list" /\ fret.v = <<PyFloorDiv(fargs[1], fargs[2]), 0>>)

\* C11 witness: 10 divided by 2 has returned [5, 0]
C11_Witness ==
    /\ fpc = "done"
    /\ fargs = <<10, 2>>
    /\ fret.v = <<5, 0>>

\* C12: for an inexact quotient the scaling loop makes at most 10 steps, and
\* the divide returns [mantissa, exponent] with -10 <= exponent <= -1, where
\* k = -exponent is the smallest number of steps after which x * 10^k is
\* divisible by y (or 10) and mantissa is x * 10^k / y cut toward zero.
C12_DecimalPair ==
    /\ fpc = "loop" => power >= -10
    /\ (fpc = "done" /\ PyMod(fargs[1], fargs[2]) # 0) =>
          LET x == fargs[1]
              y == fargs[2]
              k == 0 - fret.v[2]
          IN /\ fret.k = "list"
             /\ k \in 1..10
             /\ k < 10 => PyMod(x * Pow10(k), y) = 0
             /\ \A j \in 0..(k - 1) : PyMod(x * Pow10(j), y) # 0
             /\ Abs(fret.v[1]) = (Abs(x) * Pow10(k)) \div Abs(y)
             /\ (fret.v[1] < 0) = ((x < 0) # (y < 0))

----------------------------------------------------------------------------
(* Properties of the operators *)

\* C13: for a List L bound to a slot and an Integer v, the statement that
\* evaluates (L add v) subtract len(L) succeeds and yields a List object other
\* than L whose elements are those of L, and L holds the same elements after
\* the statement as before.
C13_AppendRemove ==
    [][\A t \in RoundTrips :
          LET top == Len(stack)
              a == get_value(stack, top, t[2].l.y)
          IN (/\ StmtSetOper(t[1], t[2], t[3], t[4])
              /\ a.k = "list"
              /\ t[4].n = Len(heap[a.v]))
             => /\ status' = "run"
                /\ stack'[top].vars[t[1]].k = "list"
                /\ stack'[top].vars[t[1]] # a
                /\ heap'[stack'[top].vars[t[1]].v] = heap[a.v]
                /\ heap'[a.v] = heap[a.v]]_vars

\* C13 witness: L = [1, 2] in slot 1, L add 7 is [1, 2, 7], and slot 00 holds
\* the result of the subtract of 2: another List [1, 2]
C13_Witness ==
    /\ Len(stack) = 1 /\ steps = 2
    /\ heap = << <<IntV(1), IntV(2)>>, <<IntV(1), IntV(2), IntV(7)>>,
                 <<IntV(1), IntV(2)>> >>
    /\ stack[1].vars["1"] = ListV(1)
    /\ stack[1].vars["00"] = ListV(3)

\* the symbols of the operator table for a pair of operand kinds
TableOps(kl, kr) ==
    IF kl = "int" /\ kr = "int" THEN AllOps
    ELSE IF kl = "list" /\ kr = "int"
    THEN {"..", ".+", ".-", "+", "-", "/", "/+", "/-"}
    ELSE IF kl = "int" /\ kr = "list" THEN {"..", ".+", ".-"}
    ELSE IF kl = "list" /\ kr = "list"
    THEN {"..", ".+", ".-", "+", "*", "/+", "/-"}
    ELSE IF kl = "func" /\ kr = "list" THEN {"-"}
    ELSE {}

\* C14: a statement whose operator has a symbol outside the table of its
\* operand pair -- (List, Integer), (Integer, List), (List, List), any symbol
\* but '-' on (Function, List), any symbol on another pair with a Function --
\* fails with UnsupportedOperation: no slot is assigned, no List is made and
\* no function body is entered.
C14_Unsupported ==
    [][\A t \in OperOpers :
          LET top == Len(stack)
              vl == EvaluateOper(t[2], stack, heap)
              vr == EvaluateOper(t[4], stack, heap)
          IN (/\ StmtSetOper(t[1], t[2], t[3], t[4])
              /\ vl.st = "ok" /\ vr.st = "ok"
              /\ t[3] \notin TableOps(vl.val.k, vr.val.k))
             => /\ status' = "UnsupportedOperation"
                /\ stack' = stack
                /\ heap' = heap]_vars

\* C14 witness: with a List in slot 1 and a function in slot 01, a statement
\* of the root scope has failed with UnsupportedOperation
C14_Witness ==
    /\ status = "UnsupportedOperation"
    /\ Len(stack) = 1
    /\ stack[1].vars["1"].k = "list"
    /\ stack[1].vars["01"].k = "func"
    /\ stack[1].vars["2"] = Unbound

----------------------------------------------------------------------------
(* Properties of If and While *)

\* the value of the condition of the statement or loop body at hand
CondOf(expr) == EvaluateOper(expr, stack, heap)

\* the blocks below the innermost one, after its position moved on
Moved == [ctl EXCEPT ![Len(ctl)].pos = @ + 1]

\* C15: an If statement whose condition is a non-zero Integer starts its
\* block and not its else block; with Integer 0 it starts its else block when
\* it has one and nothing when it has none; when the started block is over
\* nothing more of the If runs; the statements of the blocks run in the scope
\* the If runs in (the scope chain keeps its length, scopes below are as before).
C15_IfRunsOneBlock ==
    [][LET n == Len(ctl)
       IN /\ (BlockStep /\ Current.s = "if" /\ CondOf(Current.l).st = "ok"
                        /\ CondOf(Current.l).val.k = "int") =>
                /\ stack' = stack
                /\ SubSeq(ctl', 1, n) = Moved
                /\ IF CondOf(Current.l).val.v # 0
                   THEN /\ Len(ctl') = n + 1
                        /\ ctl'[n + 1].kind = "if"
                        /\ ctl'[n + 1].block = Current.stmt
                        /\ ctl'[n + 1].pos = 1
                   ELSE IF Current.has_else
                   THEN /\ Len(ctl') = n + 1
                        /\ ctl'[n + 1].kind = "else"
                        /\ ctl'[n + 1].block = Current.else_stmt
                        /\ ctl'[n + 1].pos = 1
                   ELSE Len(ctl') = n
          /\ (BlockEnd /\ ctl[n].kind \in {"if", "else"}) =>
                /\ ctl' = SubSeq(ctl, 1, n - 1)
                /\ stack' = stack /\ heap' = heap
          /\ (BlockStep /\ Current.s \in {"set", "oper"} /\ status' = "run") =>
                /\ Len(stack') = Len(stack)
                /\ \A k \in 1..(Len(stack) - 1) : stack'[k] = stack[k]
                /\ stack'[Len(stack)].vars[Current.x] # Unbound
                /\ ctl' = Moved]_vars

\* C15 witness: in a function body slot 1 is 0, and the If with an else has
\* run its else block (slot 00 of the body is 8, the caller's slot 00 is 0)
C15_Witness ==
    /\ Len(stack) = 2 /\ ctl = <<>>
    /\ stack[2].vars["1"] = IntV(0)
    /\ stack[2].vars["00"] = IntV(8)
    /\ stack[1].vars["00"] = IntV(0)

\* C16: an If or While whose condition evaluates to a List, the empty List
\* included, starts its block (its body) and not its else block; a While
\* whose condition is a List after a run of the body runs the body again.
C16_ListIsTrue ==
    [][LET n == Len(ctl)
       IN /\ (BlockStep /\ Current.s \in {"if", "while"}
                        /\ CondOf(Current.l).st = "ok"
                        /\ CondOf(Current.l).val.k = "list") =>
                /\ Len(ctl') = n + 1
                /\ ctl'[n + 1].kind \in {"if", "while"}
                /\ ctl'[n + 1].block = Current.stmt
          /\ (BlockEnd /\ ctl[n].kind = "while" /\ CondOf(ctl[n].expr).st = "ok"
                       /\ CondOf(ctl[n].expr).val.k = "list") =>
                /\ Len(ctl') = n
                /\ ctl'[n].pos = 1]_vars

\* C17: a While whose condition is Integer 0 at the first evaluation runs its
\* body zero times; each evaluation to a non-zero Integer is followed by one
\* run of the body and a new evaluation; the loop ends at the first evaluation
\* to 0; while a loop runs its condition was evaluated as often as its body
\* was started, and when it has ended once more than that.
C17_WhileCounts ==
    [][LET n == Len(ctl)
       IN /\ (BlockStep /\ Current.s = "while" /\ CondOf(Current.l).st = "ok"
                        /\ CondOf(Current.l).val.k = "int") =>
                IF CondOf(Current.l).val.v = 0
                THEN ctl' = Moved /\ ended' = [evals |-> 1, runs |-> 0]
                ELSE /\ Len(ctl') = n + 1
                     /\ ctl'[n + 1].block = Current.stmt
                     /\ ctl'[n + 1].pos = 1
                     /\ ctl'[n + 1].evals = 1 /\ ctl'[n + 1].runs = 1
          /\ (BlockEnd /\ ctl[n].kind = "while" /\ CondOf(ctl[n].expr).st = "ok"
                       /\ CondOf(ctl[n].expr).val.k = "int") =>
                IF CondOf(ctl[n].expr).val.v = 0
                THEN /\ ctl' = SubSeq(ctl, 1, n - 1)
                     /\ ended' = [evals |-> ctl[n].evals + 1, runs |-> ctl[n].runs]
                ELSE /\ Len(ctl') = n
                     /\ ctl'[n].pos = 1
                     /\ ctl'[n].evals = ctl[n].evals + 1
                     /\ ctl'[n].runs = ctl[n].runs + 1
          /\ (ended' # ended) => ended'.evals = ended'.runs + 1
          /\ \A k \in DOMAIN ctl' :
                ctl'[k].kind = "while" => ctl'[k].evals = ctl'[k].runs]_vars

\* C17 witness: the loop that counts slot 1 down by 1 has ended after three
\* evaluations of its condition and two runs of its body, slot 1 is 0
C17_Witness ==
    /\ ended = [evals |-> 3, runs |-> 2]
    /\ ctl = <<>>
    /\ stack[Len(stack)].vars["1"] = IntV(0)

----------------------------------------------------------------------------
(* Properties of run *)

\* the slot "0i" of position i (0-based) of the parameters
ZeroSlot(n) == IF n = 0 THEN "00" ELSE ParamNames[n]

\* C18: when the first statement of the program executes, slot 0i of the root
\* scope holds the i-th integer given to run, for every position i (0-based);
\* the value run returns is the root scope's slot 00 after the last statement.
C18_ParamsInSlots ==
    /\ (status = "run" /\ steps = 0) =>
          \A k \in 1..Len(param) : stack[1].vars[ZeroSlot(k - 1)] = IntV(param[k])
    /\ status = "done" => result = stack[1].vars["00"]

----------------------------------------------------------------------------
(* Properties of the unit search *)

\* the unit the loop is visiting
Visited == files[PyPos(files, i)]

\* this step fetches a text: the visited entry had none and has one now
Fetches ==
    /\ LoadStep /\ PyPos(files, i) # 0
    /\ ~texts[PyPos(files, i)].loaded
    /\ pc' = "loop"

\* every text in the cache is the text of its unit's first existing candidate
FromFirst ==
    \A k \in DOMAIN texts :
        texts[k].loaded => texts[k].src = FirstOf(disk[files[k]].at)

\* every text of the entry unit in the cache was found under the unit's name
EntryByName ==
    \A k \in DOMAIN texts :
        (texts[k].loaded /\ files[k] = Entry) => texts[k].src \in {1, 2}

\* this step ends the resolution with UnitNotFound
NotFound == err = "none" /\ err' = "UnitNotFound"

\* C19: every unit, the entry unit as well as each dependency, is fetched by
\* the four-step search: the text used is the first existing candidate's, and
\* the resolution fails with UnitNotFound only when all four are missing.
C19_FourStepSearch ==
    [][/\ (LoadEnter /\ NotFound) => disk[Entry].at = {}
       /\ (LoadStep /\ NotFound) => disk[Visited].at = {}
       /\ Fetches => /\ disk[Visited].at # {}
                     /\ FromFirst']_vars

\* C19, amended: each dependency is fetched by the four-step search and is not
\* found only when all four candidates are missing; the entry unit is not
\* found exactly when its first two candidates are missing, the library
\* candidates are not tried for it, and its text is the first of the two.
C19_EntryByNameOnly ==
    [][/\ LoadEnter => (NotFound <=> disk[Entry].at \cap {1, 2} = {})
       /\ (LoadStep /\ PyPos(files, i) # 0 /\ ~texts[PyPos(files, i)].loaded) =>
              (NotFound <=> disk[Visited].at = {})
       /\ Fetches => /\ disk[Visited].at # {}
                     /\ FromFirst'
                     /\ EntryByName']_vars

\* a dependency found only in the library has been fetched from its fourth
\* candidate, after the entry unit was fetched from its second
C19_Witness ==
    /\ pc = "done"
    /\ \E k \in DOMAIN texts : files[k] = "C" /\ texts[k].src = 4
    /\ texts[1].src = 2 /\ files[1] = Entry
    /\ disk[Entry].at = {2, 3}

\* C20: for every acyclic dependency graph the entry unit stays at position 0
\* of the discovered list during the whole resolution, so the entry unit's
\* body is the last body of the concatenated program and the body of the unit
\* at the end of the final discovered list is the first.
C20_EntryStaysFirst ==
    Acyclic =>
        /\ files # <<>> => files[1] = Entry
        /\ pc = "done" =>
              /\ final_text[Len(final_text)] = texts[1].body
              /\ final_text[Len(final_text)] = Entry
              /\ final_text[1] = texts[Len(texts)].body
              /\ final_text[1] = files[Len(files)]

\* C20 witness: E imports D then C, C imports D: D is moved behind C, the
\* entry unit stays first and the text is D-body, C-body, E-body
C20_Witness ==
    /\ pc = "done"
    /\ Acyclic
    /\ disk["E"].imports = <<"D", "C">>
    /\ disk["C"].imports = <<"D">>
    /\ files = <<"E", "C", "D">>
    /\ final_text = <<"D", "C", "E">>

----------------------------------------------------------------------------
(* Properties of index paths *)

\* the value an element of an index path stands for in the running scope
Resolve(ix) ==
    IF ix.s = "" THEN IntV(ix.n) ELSE get_value(stack, Len(stack), ix.s)

\* from the value cur, the path meets an element that is not a List or an
\* index outside 0..len-1
RECURSIVE BadPath(_, _)
BadPath(cur, path) ==
    IF path = <<>> THEN FALSE
    ELSE LET ix == Resolve(Head(path))
         IN IF cur.k # "list" THEN TRUE
            ELSE IF ix.k # "int" THEN FALSE
            ELSE IF ix.v < 0 \/ ix.v >= Len(heap[cur.v]) THEN TRUE
            ELSE BadPath(heap[cur.v][ix.v + 1], Tail(path))

\* C21: an indexed assignment never extends a List, and when an index of the
\* path is outside 0..len-1 (a negative index included) or an intermediate
\* element is not a List, it fails and leaves every List and every binding
\* unchanged.
C21_NoExtensionRejects ==
    [][\A t \in IndexSetIndexes :
          StmtSetIndex(t[1], t[2], t[3]) =>
              /\ \A r \in DOMAIN heap : Len(heap'[r]) = Len(heap[r])
              /\ BadPath(stack[Len(stack)].vars[t[1]], t[2]) =>
                    (status' # "run" /\ stack' = stack /\ heap' = heap)]_vars

\* the index path with every slot name replaced by the Integer it holds
Resolved(p) == [k \in DOMAIN p |-> Idx(Resolve(p[k]).v)]

\* C22: every element of an index path that is a slot name, the last one
\* included, is resolved to the slot's current Integer value when the
\* SetIndexed statement executes, and the resolved value is the index of
\* the write.
C22_EveryIndexResolved ==
    [][\A t \in IndexSetIndexes :
          LET a == stack[Len(stack)].vars[t[1]]
              q == Resolved(t[2])
          IN (/\ StmtSetIndex(t[1], t[2], t[3])
              /\ \A k \in DOMAIN t[2] : Resolve(t[2][k]).k = "int"
              /\ ~BadPath(a, t[2]))
             => /\ status' = "run"
                /\ stack' = stack
                /\ heap' = Overwritten(a, q, IntV(t[3].n))]_vars

----------------------------------------------------------------------------
(* Properties of the scope chain *)

\* the statement t of CtlOpers is a function invocation in this state
IsCall(t) ==
    LET el == EvaluateOper(t[2], stack, heap)
        er == EvaluateOper(t[4], stack, el.heap)
    IN el.st = "ok" /\ er.st = "ok" /\ el.val.k = "func" /\ er.val.k = "list"

\* the scopes under the running one are the same after the step
SameBelow == \A k \in 1..(Len(stack) - 1) : stack'[k] = stack[k]

\* C23: only a function invocation creates a scope. The chain has one scope
\* at the start; a step makes it one longer exactly when it is an invocation
\* and one shorter exactly when an invocation returns, so its length is 1 plus
\* the number of active invocations. Starting a Block, running a statement of
\* a Block, of an If or of a While body, and ending one keep the chain: a Set
\* in a body binds in the scope of the enclosing statement, where the
\* statements that follow read it.
C23_OnlyCallsCreateScopes ==
    [][/\ Len(stack) >= 1
       /\ \A t \in CtlOpers :
             StmtSetOper(t[1], t[2], t[3], t[4]) =>
                 Len(stack') = Len(stack)
                     + (IF IsCall(t) /\ status' = "run" THEN 1 ELSE 0)
       /\ \A t \in CtlSets : StmtSet(t[1], t[2]) => Len(stack') = Len(stack)
       /\ \A t \in CtlDefs : StmtDef(t[1], t[2]) => Len(stack') = Len(stack)
       /\ Return => Len(stack') = Len(stack) - 1
       /\ (\E b \in CtlBlocks : RunBlock(b)) => stack' = stack
       /\ BlockEnd => stack' = stack
       /\ BlockStep =>
             /\ Len(stack') = Len(stack)
             /\ SameBelow
             /\ (Current.s = "set" /\ status' = "run") =>
                   stack'[Len(stack)].vars[Current.x]
                       = Evaluate(Current.l, stack, heap).val]_vars

\* C23 witness: one invocation is active, the chain has two scopes, and the
\* Set in the block of the If of its body has bound slot 00 of the
\* invocation's scope to 7
C23_Witness ==
    /\ Len(stack) = 2
    /\ Len(ctl) = 2 /\ ctl[2].kind = "if" /\ ctl[2].pos = 2
    /\ stack[2].vars["00"] = IntV(7)
    /\ stack[1].vars["00"] = IntV(0)

\* C24: the child scope of an invocation has the scope of the call site as
\* parent: a slot that the body reads and that the child scope does not bind
\* resolves through the calling scope's chain, so the body of a function
\* called from inside another function's body reads that function's local
\* bindings and parameter slots.
C24_ParentIsCallSite ==
    [][LET top == Len(stack)
       IN /\ Len(stack') = top + 1 => stack'[top + 1].parent = top
          /\ \A t \in ScopeSets :
                (/\ t[2].e = "var" /\ StmtSet(t[1], t[2])
                 /\ top >= 2
                 /\ stack[top].vars[t[2].y] = Unbound)
                => IF get_value(stack, top - 1, t[2].y) = Unbound
                   THEN status' = "UndefinedSlot"
                   ELSE /\ status' = "run"
                        /\ stack'[top].vars[t[1]]
                             = get_value(stack, top - 1, t[2].y)]_vars

\* C24 witness: the function of the root's slot 1 is called from the body of
\* an invocation that bound its own slot 2 to 7; the inner body, which binds
\* no slot 2, has read 7 from slot 2 (the root binds no slot 2)
C24_Witness ==
    /\ Len(stack) = 3
    /\ stack[1].vars["1"].k = "func"
    /\ stack[2].vars["1"] = Unbound /\ stack[3].vars["1"] = Unbound
    /\ stack[1].vars["2"] = Unbound
    /\ stack[2].vars["2"] = IntV(7)
    /\ stack[3].vars["2"] = Unbound
    /\ stack[3].vars["00"] = IntV(7)

\* C25: a function invocation leaves the List passed as its argument vector
\* unchanged: when the right operand of the call is a slot holding a List of
\* length M and the function has N > M defaults, the caller's List has
\* length M and the same elements after the call starts and after it returns.
C25_ArgumentsUnchanged ==
    [][\A t \in ArgCalls :
          LET top == Len(stack)
              f == get_value(stack, top, t[2].y)
              a == get_value(stack, top, t[4].y)
          IN (/\ StmtSetOper(t[1], t[2], t[3], t[4])
              /\ Len(stack') = top + 1
              /\ Len(DefParams[f.v]) > Len(heap[a.v]))
             => heap'[a.v] = heap[a.v]]_vars

\* how often the value v occurs in the sequence q
Occurs(q, v) == Cardinality({k \in DOMAIN q : q[k] = v})

\* C26: for every List L and every Integer i of any sign, L subtract i is a
\* List: when 0 <= i < len(L) it is L without the element at index i, of
\* length len(L) - 1; otherwise it is not longer than L and no element of L
\* occurs in it more often than in L.
C26_SubtractNeverGrows ==
    [][\A t \in Removes :
          LET top == Len(stack)
              a == get_value(stack, top, t[2].y)
              L == heap[a.v]
              n == t[4].n
              R == heap'[stack'[top].vars[t[1]].v]
          IN (StmtSetOper(t[1], t[2], t[3], t[4]) /\ a.k = "list")
             => /\ status' = "run"
                /\ stack'[top].vars[t[1]].k = "list"
                /\ IF 0 <= n /\ n < Len(L)
                   THEN R = DelAt(L, n + 1) /\ Len(R) = Len(L) - 1
                   ELSE /\ Len(R) <= Len(L)
                        /\ \A k \in DOMAIN L : Occurs(R, L[k]) <= Occurs(L, L[k])]_vars

====
